---- MODULE Spec2Model ----
(***************************************************************************)
(* RDAP wrapper of the whois package (rdap.go): classification of a query, *)
(* conversion of a WHOIS text into an RDAP envelope, and QueryRDAP on top  *)
(* of the WHOIS resolution (classifier, server directory, referral         *)
(* follower).  Go strings are sequences of one-character strings; fixed    *)
(* enumeration-like strings (object classes, event actions) stay strings.  *)
(***************************************************************************)
EXTENDS Integers, Sequences, FiniteSets, TLC

(* ---------------- bounds ---------------- *)
MaxQueryLen == 3
MaxLines == 2
MaxHopsBound == 2
MaxCalls == 3

(* ---------------- state ---------------- *)
VARIABLES
  pc,          \* "ready"/"converted" (conversion alone); "idle"/"querying"/"done" (QueryRDAP)
  query,       \* the query string
  whoisData,   \* the WHOIS text: rc.Whois's result, convertWhoisToRDAP's input
  whoisErr,    \* rc.Whois's error
  response,    \* the *RDAPResponse returned
  err,         \* the error returned by QueryRDAP
  converted,   \* whether convertWhoisToRDAP ran for this query
  kind,        \* the QueryKind of the resolution
  maxHops,     \* the resolution's referral limit
  hops,        \* the hop count of step 2
  server,      \* the current server
  chain,       \* the ReferralChain: (server, text) per answered hop
  queried,     \* every server a transport query was sent to, in order
  truncated,   \* the chain was cut at maxHops while a fresh referral was pending
  calls        \* the conversions run so far: (query, text, catch-all map) of each

vars == <<pc, query, whoisData, whoisErr, response, err, converted, kind, maxHops, hops, server,
          chain, queried, truncated, calls>>

resolverVars == <<kind, maxHops, hops, server, chain, queried, truncated>>

(* ---------------- Go strings package ---------------- *)
Digits == {"0", "1", "2", "3", "4", "5", "6", "7", "8", "9"}

HexLetters == {"a", "b", "c", "d", "e", "f", "A", "B", "C", "D", "E", "F"}

UpperLetters == <<"A", "B", "C", "D", "E", "F", "G", "H", "I", "J", "K", "L", "M", "N", "O", "P", "Q", "R", "S", "T", "U", "V", "W", "X", "Y", "Z">>

LowerLetters == <<"a", "b", "c", "d", "e", "f", "g", "h", "i", "j", "k", "l", "m", "n", "o", "p", "q", "r", "s", "t", "u", "v", "w", "x", "y", "z">>

WhiteSpace == {" ", "\t", "\n", "\r", "\f"}

Range(s) == {s[i] : i \in 1..Len(s)}

DigitVal(c) == CHOOSE n \in 0..9 : <<"0", "1", "2", "3", "4", "5", "6", "7", "8", "9">>[n + 1] = c

LowerChar(c) ==
  IF \E i \in 1..26 : UpperLetters[i] = c
  THEN LowerLetters[CHOOSE i \in 1..26 : UpperLetters[i] = c]
  ELSE c

UpperChar(c) ==
  IF \E i \in 1..26 : LowerLetters[i] = c
  THEN UpperLetters[CHOOSE i \in 1..26 : LowerLetters[i] = c]
  ELSE c

ToLower(s) == [i \in 1..Len(s) |-> LowerChar(s[i])]

ToUpper(s) == [i \in 1..Len(s) |-> UpperChar(s[i])]

Contains(s, c) == \E i \in 1..Len(s) : s[i] = c

Index(s, c) == IF Contains(s, c) THEN CHOOSE i \in 1..Len(s) : s[i] = c /\ \A j \in 1..(i - 1) : s[j] # c ELSE 0

HasPrefix(s, p) == Len(s) >= Len(p) /\ SubSeq(s, 1, Len(p)) = p

RECURSIVE TrimLeft(_)
TrimLeft(s) == IF s # <<>> /\ Head(s) \in WhiteSpace THEN TrimLeft(Tail(s)) ELSE s

RECURSIVE TrimRight(_)
TrimRight(s) == IF s # <<>> /\ s[Len(s)] \in WhiteSpace THEN TrimRight(SubSeq(s, 1, Len(s) - 1)) ELSE s

TrimSpace(s) == TrimRight(TrimLeft(s))

RECURSIVE Split(_, _)
Split(s, c) ==
  IF Contains(s, c)
  THEN <<SubSeq(s, 1, Index(s, c) - 1)>> \o Split(SubSeq(s, Index(s, c) + 1, Len(s)), c)
  ELSE <<s>>

SplitN2_all(s, c) == Split(s, c)

SplitN2(s, c) ==
  IF Contains(s, c)
  THEN <<SubSeq(s, 1, Index(s, c) - 1), SubSeq(s, Index(s, c) + 1, Len(s))>>
  ELSE <<s>>

IsDecimal(s) == s # <<>> /\ Range(s) \subseteq Digits

RECURSIVE Atoi(_)
Atoi(s) == IF s = <<>> THEN 0 ELSE 10 * Atoi(SubSeq(s, 1, Len(s) - 1)) + DigitVal(s[Len(s)])

(* ---------------- rdap.go: helper functions ---------------- *)
MatchQuad(q) ==
  LET g == Split(q, ".")
  IN  Len(g) = 4 /\ \A i \in 1..4 : IsDecimal(g[i]) /\ Len(g[i]) <= 3

MatchHexColon(q) == q # <<>> /\ Range(q) \subseteq (Digits \cup HexLetters \cup {":"})

isIP(q) == MatchQuad(q) \/ MatchHexColon(q)

isDomain(q) == Contains(q, ".") /\ ~isIP(q)

IsASN(s) ==
  \/ IsDecimal(s)
  \/ Len(s) > 2 /\ ToUpper(SubSeq(s, 1, 2)) = <<"A", "S">> /\ IsDecimal(SubSeq(s, 3, Len(s)))

isASN(q) == IsASN(q)

getIPVersion_v4(q) == "v4"

getIPVersion(q) == IF Contains(q, ":") THEN "v6" ELSE "v4"

(* ---------------- rdap.go: RDAPResponse ---------------- *)
Nil == <<>>

Ptr(x) == <<x>>

Deref(p) == p[1]

RDAPNotice(title, type, description) == [Title |-> title, Type |-> type, Description |-> description]

RDAPEntity(handle, roles) == [ObjectClassName |-> "entity", Handle |-> handle, Roles |-> roles]

RDAPEvent(action, date) == [EventAction |-> action, EventDate |-> date]

RDAPNameserver(ldhName) == [ObjectClassName |-> "nameserver", LdhName |-> ldhName]

RDAPNetwork(country) == [ObjectClassName |-> "ip network", Country |-> country]

RDAPRemark(value) == [Description |-> <<value>>]

MapSet_keepFirst(m, k, v) == [x \in (DOMAIN m) \cup {k} |-> IF x \in DOMAIN m THEN m[x] ELSE v]

MapSet(m, k, v) == [x \in (DOMAIN m) \cup {k} |-> IF x = k THEN v ELSE m[x]]

EmptyMap == [x \in {} |-> <<>>]

\* the catch-all map of the previous response is reused instead of a fresh one
RDAPResponse_reuseMap(whois) ==
  [RdapConformance |-> <<"rdap_level_0">>, Notices |-> <<>>,
   StartAddress |-> <<>>, EndAddress |-> <<>>, IPVersion |-> "",
   Name |-> <<>>, Entities |-> <<>>, Events |-> <<>>, Status |-> <<>>,
   ObjectClassName |-> "", LdhName |-> <<>>, UnicodeName |-> <<>>,
   Nameservers |-> <<>>, Network |-> Nil, Autnum |-> <<>>, Remarks |-> <<>>,
   RawWhois |-> whois,
   WhoisParsed |-> IF response = Nil THEN EmptyMap ELSE Deref(response).WhoisParsed]

RDAPResponse(whois) ==
  [RdapConformance |-> <<"rdap_level_0">>, Notices |-> <<>>,
   StartAddress |-> <<>>, EndAddress |-> <<>>, IPVersion |-> "",
   Name |-> <<>>, Entities |-> <<>>, Events |-> <<>>, Status |-> <<>>,
   ObjectClassName |-> "", LdhName |-> <<>>, UnicodeName |-> <<>>,
   Nameservers |-> <<>>, Network |-> Nil, Autnum |-> <<>>, Remarks |-> <<>>,
   RawWhois |-> whois, WhoisParsed |-> EmptyMap]

(* ---------------- rdap.go: the three parsers ---------------- *)
\* lines 274-282: a trimmed line that is empty, a comment, or has no ":" is skipped
Skipped(line) ==
  LET l == TrimSpace(line)
  IN  l = <<>> \/ HasPrefix(l, <<"%">>) \/ Len(SplitN2(l, ":")) # 2

LineKey(line) == TrimSpace(SplitN2(TrimSpace(line), ":")[1])

LineValue(line) == TrimSpace(SplitN2(TrimSpace(line), ":")[2])

\* the "domain name" line also overwrites ldhName
parseDomainLine_ldhName(r, line) ==
  IF Skipped(line) THEN r
  ELSE LET key == LineKey(line)
           value == LineValue(line)
           k == ToLower(key)
           r1 == [r EXCEPT !.WhoisParsed = MapSet(@, key, value)]
       IN  CASE k = <<"d", "o", "m", "a", "i", "n", " ", "n", "a", "m", "e">> -> [r1 EXCEPT !.Name = value, !.LdhName = value]
             [] k = <<"r", "e", "g", "i", "s", "t", "r", "a", "r">> -> [r1 EXCEPT !.Entities = Append(@, RDAPEntity(value, <<"registrar">>))]
             [] k = <<"c", "r", "e", "a", "t", "e", "d">> -> [r1 EXCEPT !.Events = Append(@, RDAPEvent("registration", value))]
             [] k \in {<<"p", "a", "i", "d", "-", "t", "i", "l", "l">>, <<"e", "x", "p", "i", "r", "e", "s">>} -> [r1 EXCEPT !.Events = Append(@, RDAPEvent("expiration", value))]
             [] k = <<"u", "p", "d", "a", "t", "e", "d">> -> [r1 EXCEPT !.Events = Append(@, RDAPEvent("last changed", value))]
             [] k = <<"n", "s", "e", "r", "v", "e", "r">> -> [r1 EXCEPT !.Nameservers = Append(@, RDAPNameserver(value))]
             [] k = <<"s", "t", "a", "t", "u", "s">> -> [r1 EXCEPT !.Status = Append(@, value)]
             [] OTHER -> r1

parseDomainLine(r, line) ==
  IF Skipped(line) THEN r
  ELSE LET key == LineKey(line)
           value == LineValue(line)
           k == ToLower(key)
           r1 == [r EXCEPT !.WhoisParsed = MapSet(@, key, value)]
       IN  CASE k = <<"d", "o", "m", "a", "i", "n", " ", "n", "a", "m", "e">> -> [r1 EXCEPT !.Name = value]
             [] k = <<"r", "e", "g", "i", "s", "t", "r", "a", "r">> -> [r1 EXCEPT !.Entities = Append(@, RDAPEntity(value, <<"registrar">>))]
             [] k = <<"c", "r", "e", "a", "t", "e", "d">> -> [r1 EXCEPT !.Events = Append(@, RDAPEvent("registration", value))]
             [] k \in {<<"p", "a", "i", "d", "-", "t", "i", "l", "l">>, <<"e", "x", "p", "i", "r", "e", "s">>} -> [r1 EXCEPT !.Events = Append(@, RDAPEvent("expiration", value))]
             [] k = <<"u", "p", "d", "a", "t", "e", "d">> -> [r1 EXCEPT !.Events = Append(@, RDAPEvent("last changed", value))]
             [] k = <<"n", "s", "e", "r", "v", "e", "r">> -> [r1 EXCEPT !.Nameservers = Append(@, RDAPNameserver(value))]
             [] k = <<"s", "t", "a", "t", "u", "s">> -> [r1 EXCEPT !.Status = Append(@, value)]
             [] OTHER -> r1

parseIPLine(r, line) ==
  IF Skipped(line) THEN r
  ELSE LET key == LineKey(line)
           value == LineValue(line)
           k == ToLower(key)
           r1 == [r EXCEPT !.WhoisParsed = MapSet(@, key, value)]
       IN  CASE k \in {<<"n", "e", "t", "n", "a", "m", "e">>, <<"n", "e", "t", "w", "o", "r", "k", " ", "n", "a", "m", "e">>} -> [r1 EXCEPT !.Name = value]
             [] k \in {<<"d", "e", "s", "c", "r">>, <<"d", "e", "s", "c", "r", "i", "p", "t", "i", "o", "n">>} -> [r1 EXCEPT !.Remarks = Append(@, RDAPRemark(value))]
             [] k = <<"c", "o", "u", "n", "t", "r", "y">> -> [r1 EXCEPT !.Network = Ptr(RDAPNetwork(value))]
             [] k = <<"c", "r", "e", "a", "t", "e", "d">> -> [r1 EXCEPT !.Events = Append(@, RDAPEvent("registration", value))]
             [] k = <<"l", "a", "s", "t", "-", "m", "o", "d", "i", "f", "i", "e", "d">> -> [r1 EXCEPT !.Events = Append(@, RDAPEvent("last changed", value))]
             [] OTHER -> r1

\* the IP parser's "netname" case copied into the ASN parser
parseASNLine_netname(r, line) ==
  IF Skipped(line) THEN r
  ELSE LET key == LineKey(line)
           value == LineValue(line)
           k == ToLower(key)
           r1 == [r EXCEPT !.WhoisParsed = MapSet(@, key, value)]
       IN  CASE k \in {<<"a", "s", "-", "n", "a", "m", "e">>, <<"a", "u", "t", "-", "n", "u", "m">>, <<"n", "e", "t", "n", "a", "m", "e">>} -> [r1 EXCEPT !.Name = value]
             [] k \in {<<"d", "e", "s", "c", "r">>, <<"d", "e", "s", "c", "r", "i", "p", "t", "i", "o", "n">>} -> [r1 EXCEPT !.Remarks = Append(@, RDAPRemark(value))]
             [] k = <<"c", "r", "e", "a", "t", "e", "d">> -> [r1 EXCEPT !.Events = Append(@, RDAPEvent("registration", value))]
             [] k = <<"l", "a", "s", "t", "-", "m", "o", "d", "i", "f", "i", "e", "d">> -> [r1 EXCEPT !.Events = Append(@, RDAPEvent("last changed", value))]
             [] OTHER -> r1

parseASNLine(r, line) ==
  IF Skipped(line) THEN r
  ELSE LET key == LineKey(line)
           value == LineValue(line)
           k == ToLower(key)
           r1 == [r EXCEPT !.WhoisParsed = MapSet(@, key, value)]
       IN  CASE k \in {<<"a", "s", "-", "n", "a", "m", "e">>, <<"a", "u", "t", "-", "n", "u", "m">>} -> [r1 EXCEPT !.Name = value]
             [] k \in {<<"d", "e", "s", "c", "r">>, <<"d", "e", "s", "c", "r", "i", "p", "t", "i", "o", "n">>} -> [r1 EXCEPT !.Remarks = Append(@, RDAPRemark(value))]
             [] k = <<"c", "r", "e", "a", "t", "e", "d">> -> [r1 EXCEPT !.Events = Append(@, RDAPEvent("registration", value))]
             [] k = <<"l", "a", "s", "t", "-", "m", "o", "d", "i", "f", "i", "e", "d">> -> [r1 EXCEPT !.Events = Append(@, RDAPEvent("last changed", value))]
             [] OTHER -> r1

RECURSIVE parseDomainLines_rev(_, _)
parseDomainLines_rev(r, lines) ==
  IF lines = <<>> THEN r ELSE parseDomainLine(parseDomainLines_rev(r, Tail(lines)), Head(lines))

RECURSIVE parseDomainLines(_, _)
parseDomainLines(r, lines) ==
  IF lines = <<>> THEN r ELSE parseDomainLines(parseDomainLine(r, Head(lines)), Tail(lines))

RECURSIVE parseIPLines(_, _)
parseIPLines(r, lines) ==
  IF lines = <<>> THEN r ELSE parseIPLines(parseIPLine(r, Head(lines)), Tail(lines))

RECURSIVE parseASNLines(_, _)
parseASNLines(r, lines) ==
  IF lines = <<>> THEN r ELSE parseASNLines(parseASNLine(r, Head(lines)), Tail(lines))

parseDomainWhois(r, whois) == parseDomainLines(r, Split(whois, "\n"))

parseIPWhois(r, whois) == parseIPLines(r, Split(whois, "\n"))

parseASNWhois(r, whois) == parseASNLines(r, Split(whois, "\n"))

(* ---------------- rdap.go: convertWhoisToRDAP ---------------- *)
TermsOfService ==
  RDAPNotice("Terms of Service", "result set truncated due to authorization",
             <<"This response has been truncated due to authorization.">>)

convertWhoisToRDAP(q, whois) ==
  LET r0 == RDAPResponse(whois)
      r1 == IF isDomain(q)
            THEN parseDomainWhois([r0 EXCEPT !.ObjectClassName = "domain",
                                             !.LdhName = ToLower(q),
                                             !.UnicodeName = q], whois)
            ELSE IF isIP(q)
            THEN parseIPWhois([r0 EXCEPT !.ObjectClassName = "ip network",
                                         !.StartAddress = q,
                                         !.EndAddress = q,
                                         !.IPVersion = getIPVersion(q)], whois)
            ELSE IF isASN(q)
            THEN parseASNWhois([r0 EXCEPT !.ObjectClassName = "autnum",
                                          !.Autnum = q], whois)
            ELSE r0
  IN  [r1 EXCEPT !.Notices = Append(@, TermsOfService)]

(* ---------------- rdap.go: QueryRDAP ---------------- *)
\* lines 211-225, given what rc.Whois(query) returned.  convertWhoisToRDAP never
\* returns an error (line 266), so the branch of lines 220-222 is never taken.
WrapError(prefix, e) == [prefix |-> prefix, wrapped |-> e]

QueryRDAP_ignoreErr(q, data, werr) ==
  [response |-> Ptr(convertWhoisToRDAP(q, data)), err |-> Nil, converted |-> TRUE]

QueryRDAP_unwrapped(q, data, werr) ==
  IF werr # Nil
  THEN [response |-> Nil, err |-> Ptr(WrapError("failed to convert WHOIS to RDAP", Deref(werr))), converted |-> FALSE]
  ELSE [response |-> Ptr(convertWhoisToRDAP(q, data)), err |-> Nil, converted |-> TRUE]

QueryRDAP(q, data, werr) ==
  IF werr # Nil
  THEN [response |-> Nil, err |-> Ptr(WrapError("failed to query WHOIS", Deref(werr))), converted |-> FALSE]
  ELSE [response |-> Ptr(convertWhoisToRDAP(q, data)), err |-> Nil, converted |-> TRUE]

(* ---------------- WHOIS resolution: Query Classifier ---------------- *)
IsIPv4Form(s) ==
  LET g == Split(s, ".")
  IN  Len(g) = 4 /\ \A i \in 1..4 : IsDecimal(g[i]) /\ Len(g[i]) <= 3 /\ Atoi(g[i]) <= 255

IsIPv6Form(s) ==
  LET g == Split(s, ":")
      n == Len(g)
      empties == {i \in 2..(n - 1) : g[i] = <<>>}
  IN  /\ n >= 3 /\ n <= 8
      /\ \A i \in 1..n : Len(g[i]) <= 4 /\ Range(g[i]) \subseteq (Digits \cup HexLetters)
      /\ Cardinality(empties) <= 1
      /\ (g[1] = <<>>) => (g[2] = <<>>)
      /\ (g[n] = <<>>) => (g[n - 1] = <<>>)
      /\ (empties = {}) => (n = 8)

classify(input) ==
  IF IsASN(input) THEN "ASN"
  ELSE IF IsIPv4Form(input) THEN "IPv4"
  ELSE IF IsIPv6Form(input) THEN "IPv6"
  ELSE IF Contains(input, ".") THEN "Domain"
  ELSE "Unknown"

(* ---------------- WHOIS resolution: Server Directory ---------------- *)
ServerAddress(host, port) == [host |-> host, port |-> port]

DefaultPort == 43

Normalize(a) == [host |-> a.host, port |-> IF a.port = Nil THEN Ptr(DefaultPort) ELSE a.port]

TLDServers == (<<"r", "u">> :> ServerAddress(<<"a">>, Nil)) @@ (<<"c", "o", "m">> :> ServerAddress(<<"b">>, Ptr(43)))

resolveInitialServer(k, identifier) ==
  CASE k = "Domain" ->
         LET labels == Split(identifier, ".")
             tld == ToLower(labels[Len(labels)])
         IN  IF tld \in DOMAIN TLDServers THEN Ptr(TLDServers[tld]) ELSE Nil
    [] k = "IPv4" ->
         IF Atoi(Split(identifier, ".")[1]) < 128 THEN Ptr(ServerAddress(<<"c">>, Nil)) ELSE Nil
    [] k = "IPv6" ->
         IF HasPrefix(identifier, <<"2">>) THEN Ptr(ServerAddress(<<"c">>, Nil)) ELSE Nil
    [] k = "ASN" ->
         LET num == Atoi(IF IsDecimal(identifier) THEN identifier ELSE SubSeq(identifier, 3, Len(identifier)))
         IN  IF num >= 1 /\ num <= 65535 THEN Ptr(ServerAddress(<<"d">>, Nil)) ELSE Nil
    [] OTHER -> Nil

(* ---------------- WHOIS resolution: Referral Follower ---------------- *)
ReferralMarkers(k) ==
  IF k = "Domain" THEN {<<"r", "e", "g", "i", "s", "t", "r", "a", "r", " ", "w", "h", "o", "i", "s", " ", "s", "e", "r", "v", "e", "r">>} ELSE {<<"r", "e", "f", "e", "r", "r", "a", "l", "s", "e", "r", "v", "e", "r">>}

\* the value of a referral line as a ServerAddress: host or host:port
ParseServerAddress(value) ==
  LET p == SplitN2(value, ":")
      hostOK == p[1] # <<>> /\ Range(p[1]) \cap (WhiteSpace \cup {":"}) = {}
  IN  IF ~hostOK THEN Nil
      ELSE IF Len(p) = 1 THEN Ptr(ServerAddress(p[1], Nil))
      ELSE IF IsDecimal(p[2]) THEN Ptr(ServerAddress(p[1], Ptr(Atoi(p[2]))))
      ELSE Nil

IsReferralLine(line, k) ==
  /\ ~Skipped(line)
  /\ ToLower(LineKey(line)) \in ReferralMarkers(k)
  /\ ParseServerAddress(LineValue(line)) # Nil

\* the first referral hint line wins
referralHint(text, k) ==
  LET lines == Split(text, "\n")
      hits == {i \in 1..Len(lines) : IsReferralLine(lines[i], k)}
  IN  IF hits = {} THEN Nil
      ELSE ParseServerAddress(LineValue(lines[CHOOSE i \in hits : \A j \in hits : i <= j]))

InChain_raw(a, ch) == \E i \in 1..Len(ch) : ch[i].server = a

InChain(a, ch) == \E i \in 1..Len(ch) : Normalize(ch[i].server) = Normalize(a)

\* step 2e: no hint, a cycle, or the hop count has reached maxHops
Terminal(hint, ch, hopCount, limit) == hint = Nil \/ InChain(Deref(hint), ch) \/ hopCount >= limit

UnclassifiedInput == [kind |-> "UnclassifiedInput"]

NoServer == [kind |-> "NoServer"]

TransportError(hopCount, srv) == [kind |-> "Transport", hops |-> hopCount, server |-> srv]

(* ---------------- inputs ---------------- *)
QueryAlphabet == {"1", "a", "A", "s", "S", ".", ":"}

ShortQueries == UNION {[1..n -> QueryAlphabet] : n \in 0..MaxQueryLen}

CuratedQueries ==
  {<<>>, <<"e", "g", "g", "e", "r", ".", "r", "u">>, <<"E", "G", "G", "E", "R", ".", "R", "U">>, <<"e", "x", "a", "m", "p", "l", "e", ".", "c", "o", "m">>, <<"e", "x", "a", "m", "p", "l", "e", ".", "o", "r", "g">>, <<"8", ".", "8", ".", "8", ".", "8">>, <<"2", "0", "0", ".", "1", ".", "1", ".", "1">>,
   <<"2", "5", "6", ".", "1", ".", "1", ".", "1">>, <<"9", "9", "9", ".", "9", "9", "9", ".", "9", "9", "9", ".", "9", "9", "9">>, <<"1", ".", "1", ".", "1">>, <<"2", "0", "0", "1", ":", "d", "b", "8", ":", ":", "1">>, <<":", ":", "1">>, <<"1", "5", "1", "6", "9">>, <<"A", "S", "1", "5", "1", "6", "9">>,
   <<"a", "s", "1", "5", "1", "6", "9">>, <<"A", "s", "7", "0", "0", "0", "0">>, <<"c", "a", "f", "e">>, <<"f", "o", "o">>, <<"f", "o", "o", ":", "b", "a", "r">>, <<"A", "S">>}

Queries == CuratedQueries \cup ShortQueries

Lines == {<<"D", "o", "m", "a", "i", "n", " ", "N", "a", "m", "e", ":", " ", "E", "G", "G", "E", "R", ".", "R", "U">>, <<"n", "s", "e", "r", "v", "e", "r", ":", " ", "n", "s", "1", ".">>, <<"%", " ", "c", "o", "m", "m", "e", "n", "t">>, <<"n", "e", "t", "n", "a", "m", "e", ":", " ", "G", "O", "G", "L">>, <<"a", "s", "-", "n", "a", "m", "e", ":", " ", "G">>}

RECURSIVE Join(_)
Join(ls) == IF ls = <<>> THEN <<>> ELSE IF Len(ls) = 1 THEN ls[1] ELSE ls[1] \o <<"\n">> \o Join(Tail(ls))

RawTexts == {Join(ls) : ls \in UNION {[1..n -> Lines] : n \in 0..MaxLines}}

ParseQueries == {<<"E", "g", "g", "e", "r", ".", "R", "U">>, <<"8", ".", "8", ".", "8", ".", "8">>, <<"A", "S", "1", "5", "1", "6", "9">>, <<"f", "o", "o">>}

ParseLines ==
  {<<"D", "o", "m", "a", "i", "n", " ", "N", "a", "m", "e", ":", " ", "E", "G", "G", "E", "R", ".", "R", "U">>, <<"n", "s", "e", "r", "v", "e", "r", ":", " ", "n", "s", "1", ".">>, <<"n", "s", "e", "r", "v", "e", "r", ":", " ", "n", "s", "2", ".">>,
   <<"c", "r", "e", "a", "t", "e", "d", ":", " ", "2", "0", "0", "1", "-", "0", "2", "-", "1", "9", "T", "2", "1", ":", "0", "0", ":", "0", "0", "Z">>, <<"p", "a", "i", "d", "-", "t", "i", "l", "l", ":", " ", "2", "0", "2", "6">>, <<"u", "p", "d", "a", "t", "e", "d", ":", " ", "2", "0", "2", "0">>,
   <<"R", "e", "g", "i", "s", "t", "r", "a", "r", ":", " ", "R">>, <<"s", "t", "a", "t", "u", "s", ":", "o", "k">>, <<" ", "%", " ", "c", "o", "m", "m", "e", "n", "t", ":", " ", "x">>, <<"n", "o", " ", "s", "e", "p", "a", "r", "a", "t", "o", "r">>, <<>>,
   <<" ", " ", "n", "e", "t", "n", "a", "m", "e", " ", ":", " ", " ", "G", "O", "G", "L", " ", "\r">>, <<"d", "e", "s", "c", "r", ":", " ", "d">>, <<"c", "o", "u", "n", "t", "r", "y", ":", " ", "U", "S">>, <<"a", "s", "-", "n", "a", "m", "e", ":", " ", "G">>, <<"s", "t", "a", "t", "e", ":", " ", "x">>}

ParseTexts == {Join(ls) : ls \in UNION {[1..n -> ParseLines] : n \in 0..MaxLines}}

NormalizeQueries == {<<"e", "g", "g", "e", "r", ".", "r", "u">>, <<"8", ".", "8", ".", "8", ".", "8">>, <<"A", "S", "1", "5", "1", "6", "9">>}

NormalizeTexts ==
  {<<>>, <<"n", "s", "e", "r", "v", "e", "r", ":", " ", "n", "s", "1", ".", "\n", "n", "s", "e", "r", "v", "e", "r", ":", " ", "n", "s", "2", ".">>, <<"n", "e", "t", "n", "a", "m", "e", ":", " ", "G", "O", "G", "L", "\n", "s", "t", "a", "t", "e", ":", " ", "x">>, <<"%", " ", "c", "\n", "a", "s", "-", "n", "a", "m", "e", ":", " ", "G", "\n", "c", "r", "e", "a", "t", "e", "d", ":", " ", "2", "0", "0", "0">>}

ResponseTexts ==
  {<<"D", "o", "m", "a", "i", "n", " ", "N", "a", "m", "e", ":", " ", "E", "G", "G", "E", "R", ".", "R", "U", "\n", "n", "s", "e", "r", "v", "e", "r", ":", " ", "n", "s", "1", ".", "\n">>,
   <<"R", "e", "g", "i", "s", "t", "r", "a", "r", " ", "W", "H", "O", "I", "S", " ", "S", "e", "r", "v", "e", "r", ":", " ", "b", "\n", "n", "s", "e", "r", "v", "e", "r", ":", " ", "n", "s", "1", ".">>,
   <<"%", " ", "r", "e", "f", "e", "r", "r", "a", "l", "\n", "R", "e", "g", "i", "s", "t", "r", "a", "r", " ", "W", "H", "O", "I", "S", " ", "S", "e", "r", "v", "e", "r", ":", " ", "b", ":", "4", "3", "\n", "R", "e", "g", "i", "s", "t", "r", "a", "r", " ", "W", "H", "O", "I", "S", " ", "S", "e", "r", "v", "e", "r", ":", " ", "c">>,
   <<"r", "e", "g", "i", "s", "t", "r", "a", "r", " ", "w", "h", "o", "i", "s", " ", "s", "e", "r", "v", "e", "r", ":", " ", "c">>,
   <<"R", "e", "g", "i", "s", "t", "r", "a", "r", " ", "W", "H", "O", "I", "S", " ", "S", "e", "r", "v", "e", "r", ":", " ", "d", ":", "4", "3", "4", "3">>,
   <<"R", "e", "g", "i", "s", "t", "r", "a", "r", " ", "W", "H", "O", "I", "S", " ", "S", "e", "r", "v", "e", "r", ":", " ", "a">>,
   <<"R", "e", "g", "i", "s", "t", "r", "a", "r", " ", "W", "H", "O", "I", "S", " ", "S", "e", "r", "v", "e", "r", ":", " ", "b", ":", "x", "\n", "D", "o", "m", "a", "i", "n", " ", "N", "a", "m", "e", ":", " ", "X">>,
   <<"R", "e", "f", "e", "r", "r", "a", "l", "S", "e", "r", "v", "e", "r", ":", " ", "b", "\n", "n", "e", "t", "n", "a", "m", "e", ":", " ", "N">>,
   <<"a", "s", "-", "n", "a", "m", "e", ":", " ", "G", "\n", " ", "R", "e", "f", "e", "r", "r", "a", "l", "S", "e", "r", "v", "e", "r", " ", ":", " ", "c", ":", "4", "3", " ">>}

(* ---------------- conversion alone ---------------- *)
Call3(q, text, parsed) == [query |-> q, whoisData |-> text, whoisParsed |-> parsed]

InitConvert ==
  /\ pc = "ready"
  /\ query \in Queries
  /\ whoisData \in RawTexts
  /\ whoisErr = Nil /\ response = Nil /\ err = Nil /\ converted = FALSE
  /\ kind = "Unknown" /\ maxHops = 0 /\ hops = 0 /\ server = Nil
  /\ chain = <<>> /\ queried = <<>> /\ truncated = FALSE
  /\ calls = <<>>

Convert ==
  /\ pc = "ready"
  /\ response' = Ptr(convertWhoisToRDAP(query, whoisData))
  /\ converted' = TRUE
  /\ pc' = "converted"
  /\ calls' = Append(calls, Call3(query, whoisData, Deref(response').WhoisParsed))
  /\ UNCHANGED <<query, whoisData, whoisErr, err>>
  /\ UNCHANGED resolverVars

NextConvert == Convert

SpecConvert == InitConvert /\ [][NextConvert]_vars

(* ---------------- conversion of registry texts ---------------- *)
InitParse ==
  /\ pc = "ready"
  /\ query \in ParseQueries
  /\ whoisData \in ParseTexts
  /\ whoisErr = Nil /\ response = Nil /\ err = Nil /\ converted = FALSE
  /\ kind = "Unknown" /\ maxHops = 0 /\ hops = 0 /\ server = Nil
  /\ chain = <<>> /\ queried = <<>> /\ truncated = FALSE
  /\ calls = <<>>

SpecParse == InitParse /\ [][NextConvert]_vars

(* ---------------- successive conversions by one client ---------------- *)
InitNormalize ==
  /\ pc = "ready"
  /\ query = <<>> /\ whoisData = <<>>
  /\ whoisErr = Nil /\ response = Nil /\ err = Nil /\ converted = FALSE
  /\ kind = "Unknown" /\ maxHops = 0 /\ hops = 0 /\ server = Nil
  /\ chain = <<>> /\ queried = <<>> /\ truncated = FALSE
  /\ calls = <<>>

\* one more call of convertWhoisToRDAP(q, text) on the same client
ConvertAgain(q, text) ==
  /\ Len(calls) < MaxCalls
  /\ query' = q
  /\ whoisData' = text
  /\ response' = Ptr(convertWhoisToRDAP(q, text))
  /\ converted' = TRUE
  /\ calls' = Append(calls, Call3(q, text, Deref(response').WhoisParsed))
  /\ UNCHANGED <<pc, whoisErr, err>>
  /\ UNCHANGED resolverVars

NextNormalize == \E q \in NormalizeQueries, text \in NormalizeTexts : ConvertAgain(q, text)

SpecNormalize == InitNormalize /\ [][NextNormalize]_vars

(* ---------------- QueryRDAP over the resolution ---------------- *)
Init ==
  /\ pc = "idle"
  /\ query = <<>> /\ whoisData = <<>>
  /\ whoisErr = Nil /\ response = Nil /\ err = Nil /\ converted = FALSE
  /\ kind = "Unknown" /\ maxHops = 0 /\ hops = 0 /\ server = Nil
  /\ chain = <<>> /\ queried = <<>> /\ truncated = FALSE
  /\ calls = <<>>

\* QueryRDAP returns: rc.Whois gave (data, werr)
Return(data, werr) ==
  LET out == QueryRDAP(query', data, werr)
  IN  /\ whoisData' = data
      /\ whoisErr' = werr
      /\ response' = out.response
      /\ err' = out.err
      /\ converted' = out.converted
      /\ calls' = IF out.converted
                  THEN Append(calls, Call3(query', data, Deref(out.response).WhoisParsed))
                  ELSE calls
      /\ pc' = "done"

\* QueryRDAP(q) is called: classification and the directory lookup are local
Call(q, limit) ==
  /\ pc = "idle"
  /\ query' = q
  /\ maxHops' = limit
  /\ kind' = classify(q)
  /\ hops' = 0
  /\ UNCHANGED <<chain, queried, truncated>>
  /\ IF classify(q) = "Unknown"
     THEN server' = Nil /\ Return(<<>>, Ptr(UnclassifiedInput))
     ELSE IF resolveInitialServer(classify(q), q) = Nil
     THEN server' = Nil /\ Return(<<>>, Ptr(NoServer))
     ELSE /\ server' = resolveInitialServer(classify(q), q)
          /\ pc' = "querying"
          /\ UNCHANGED <<whoisData, whoisErr, response, err, converted, calls>>

\* steps 2a, 2c-2f: the current server answers with text
TransportReply(text) ==
  /\ pc = "querying"
  /\ queried' = Append(queried, Deref(server))
  /\ chain' = Append(chain, [server |-> Deref(server), text |-> text])
  /\ UNCHANGED <<query, kind, maxHops>>
  /\ LET hint == referralHint(text, kind)
     IN  IF Terminal(hint, chain', hops, maxHops)
         THEN /\ truncated' = (hint # Nil /\ ~InChain(Deref(hint), chain'))
              /\ Return(text, Nil)
              /\ UNCHANGED <<hops, server>>
         ELSE /\ server' = hint
              /\ hops' = hops + 1
              /\ UNCHANGED <<pc, whoisData, whoisErr, response, err, converted, truncated, calls>>

\* steps 2a-2b: the transport fails at the current server
TransportFail ==
  /\ pc = "querying"
  /\ queried' = Append(queried, Deref(server))
  /\ UNCHANGED <<query, kind, maxHops, hops, server, chain, truncated>>
  /\ Return(<<>>, Ptr(TransportError(hops, Deref(server))))

Next ==
  \/ \E q \in CuratedQueries, limit \in 0..MaxHopsBound : Call(q, limit)
  \/ \E text \in ResponseTexts : TransportReply(text)
  \/ TransportFail

Spec == Init /\ [][Next]_vars

(* ---------------- properties ---------------- *)
ObjectClasses == {"domain", "ip network", "autnum"}

Envelope == Deref(response)

IsUnknown(q) == classify(q) = "Unknown" \/ (~isDomain(q) /\ ~isIP(q) /\ ~isASN(q))

Addresses(s) == [i \in 1..Len(s) |-> Normalize(s[i])]

NoRepeat(s) == \A i, j \in 1..Len(s) : i # j => s[i] # s[j]

ChainServers == [i \in 1..Len(chain) |-> chain[i].server]

LastHint == referralHint(chain[Len(chain)].text, kind)

\* C1: an ASN-shaped input (a decimal integer, bare or prefixed with "AS" in any
\* letter case) gets the object class "autnum" from convertWhoisToRDAP.
C1_AsnInputIsAutnum ==
  (pc = "converted" /\ IsASN(query)) => Envelope.ObjectClassName = "autnum"

\* C2: for an input that classifies as Unknown, QueryRDAP returns no envelope and
\* an error, and no transport query has been issued for it.
C2_UnknownFailsBeforeTransport ==
  (pc # "idle" /\ IsUnknown(query)) =>
    pc = "done" /\ response = Nil /\ err # Nil /\ queried = <<>>

C2_Witness == pc = "done" /\ query = <<"f", "o", "o">> /\ IsUnknown(query) /\ err # Nil /\ response = Nil

\* C3: for a decimal number n, the envelopes for "n" and "ASn" carry the same
\* autnum value.
C3_SameAutnum ==
  (pc = "converted" /\ IsDecimal(query)) =>
    Envelope.Autnum = convertWhoisToRDAP(<<"A", "S">> \o query, whoisData).Autnum

\* C4: an input with no dot, no colon, that is neither a decimal integer nor an
\* AS-prefixed decimal integer is Unknown: isDomain, isIP and isASN are all false
\* and the envelope has none of the three object classes.
C4_ShapelessIsUnknown ==
  (pc = "converted" /\ ~Contains(query, ".") /\ ~Contains(query, ":") /\ ~IsASN(query)) =>
    /\ ~isDomain(query) /\ ~isIP(query) /\ ~isASN(query)
    /\ Envelope.ObjectClassName \notin ObjectClasses

\* C5: an input is classified as IPv4 only if it is a dotted quad of four decimal
\* groups, each in 0..255.
C5_IPv4OnlyInRange ==
  (pc = "converted" /\ Envelope.ObjectClassName = "ip network" /\ Envelope.IPVersion = "v4") =>
    IsIPv4Form(query)

\* C6: for an input classified as an IP address the envelope has the object class
\* "ip network", startAddress = endAddress = the input, and ipVersion "v4" for a
\* dotted quad and "v6" for a colon-separated hexadecimal address.
C6_IPEnvelope ==
  (pc = "converted" /\ (isIP(query) \/ IsIPv4Form(query) \/ IsIPv6Form(query))) =>
    /\ Envelope.ObjectClassName = "ip network"
    /\ Envelope.StartAddress = query
    /\ Envelope.EndAddress = query
    /\ IsIPv4Form(query) => Envelope.IPVersion = "v4"
    /\ IsIPv6Form(query) => Envelope.IPVersion = "v6"

C6_Witness ==
  /\ pc = "converted" /\ query = <<"2", "0", "0", "1", ":", "d", "b", "8", ":", ":", "1">> /\ IsIPv6Form(query)
  /\ Envelope.IPVersion = "v6" /\ Envelope.StartAddress = query

\* C7: every envelope of convertWhoisToRDAP has rdapConformance = ["rdap_level_0"],
\* exactly one notice (the terms of service), and an object class among domain,
\* ip network, autnum.
C7_FixedEnvelopeParts ==
  pc = "converted" =>
    /\ Envelope.RdapConformance = <<"rdap_level_0">>
    /\ Len(Envelope.Notices) = 1
    /\ Envelope.Notices[1].Title = "Terms of Service"
    /\ Envelope.Notices[1].Type = "result set truncated due to authorization"
    /\ Envelope.Notices[1].Description # <<>>
    /\ Envelope.ObjectClassName \in ObjectClasses

\* C8: when the WHOIS lookup returns an error, QueryRDAP returns a nil response and
\* an error "failed to query WHOIS" wrapping the lookup's error, and the conversion
\* is not run.
C8_WhoisErrorWrapped ==
  (pc = "done" /\ whoisErr # Nil) =>
    /\ response = Nil
    /\ err # Nil
    /\ Deref(err).prefix = "failed to query WHOIS"
    /\ Deref(err).wrapped = Deref(whoisErr)
    /\ ~converted

C8_Witness == pc = "done" /\ query = <<>> /\ whoisErr # Nil /\ err # Nil /\ ~converted

\* C9: no normalized server address is queried twice in one resolution, the chain
\* holds no address twice, the next server to query is not in the chain, and a
\* referral to a server of the chain (the one just queried included) ends the
\* resolution with the current response as the terminal one.
C9_NoServerTwice ==
  /\ NoRepeat(Addresses(queried))
  /\ NoRepeat(Addresses(ChainServers))
  /\ pc = "querying" => Normalize(Deref(server)) \notin Range(Addresses(ChainServers))
  /\ (chain # <<>> /\ LastHint # Nil /\ Normalize(Deref(LastHint)) \in Range(Addresses(ChainServers))) =>
       pc = "done" /\ whoisErr = Nil /\ whoisData = chain[Len(chain)].text

C9_Witness ==
  /\ pc = "done" /\ Len(chain) >= 2 /\ LastHint # Nil
  /\ Normalize(Deref(LastHint)) = Normalize(chain[Len(chain)].server)
  /\ Deref(LastHint) # chain[Len(chain)].server
  /\ whoisData = chain[Len(chain)].text

\* C10: one resolution performs at most maxHops hops, a hop being one query to
\* one server.
C10_AtMostMaxHops == Len(queried) <= maxHops /\ Len(chain) <= maxHops

(* ---------------- properties of the parsers ---------------- *)
TextLines == Split(whoisData, "\n")

\* the lines that are parsed: not blank, not a comment, with a separator
ParsedIdx == {i \in 1..Len(TextLines) : ~Skipped(TextLines[i])}

LastWith(label) ==
  CHOOSE i \in ParsedIdx :
    /\ LineKey(TextLines[i]) = label
    /\ \A j \in ParsedIdx : LineKey(TextLines[j]) = label => j <= i

\* C11: after normalizing a text for a domain, IP or ASN query, whoisParsed has
\* exactly one key per distinct trimmed label of the parsed lines, mapped or not,
\* and its value is the trimmed value of the last parsed line with that label.
C11_CatchAllLastSeen ==
  (pc = "converted" /\ Envelope.ObjectClassName \in ObjectClasses) =>
    /\ DOMAIN Envelope.WhoisParsed = {LineKey(TextLines[i]) : i \in ParsedIdx}
    /\ \A label \in DOMAIN Envelope.WhoisParsed :
         Envelope.WhoisParsed[label] = LineValue(TextLines[LastWith(label)])

C11_Witness ==
  /\ pc = "converted" /\ Envelope.ObjectClassName = "domain"
  /\ whoisData = <<"n", "s", "e", "r", "v", "e", "r", ":", " ", "n", "s", "1", ".", "\n", "n", "s", "e", "r", "v", "e", "r", ":", " ", "n", "s", "2", ".">>
  /\ Envelope.WhoisParsed = (<<"n", "s", "e", "r", "v", "e", "r">> :> <<"n", "s", "2", ".">>)

\* the parsed lines whose label, lower-cased, is one of labels, in line order
RECURSIVE MatchingUpTo(_, _)
MatchingUpTo(labels, n) ==
  IF n = 0 THEN <<>>
  ELSE IF n \in ParsedIdx /\ ToLower(LineKey(TextLines[n])) \in labels
  THEN Append(MatchingUpTo(labels, n - 1), n)
  ELSE MatchingUpTo(labels, n - 1)

Matching(labels) == MatchingUpTo(labels, Len(TextLines))

ValueAt(i) == LineValue(TextLines[i])

DomainEventAction(label) ==
  CASE label = <<"c", "r", "e", "a", "t", "e", "d">> -> "registration"
    [] label \in {<<"p", "a", "i", "d", "-", "t", "i", "l", "l">>, <<"e", "x", "p", "i", "r", "e", "s">>} -> "expiration"
    [] label = <<"u", "p", "d", "a", "t", "e", "d">> -> "last changed"

\* C12: for a domain response, nameservers, status, entities and events hold one
\* entry per matching line, in line order, duplicates kept; an event's date is the
\* line's value unaltered.
C12_DomainCollectionsInOrder ==
  (pc = "converted" /\ Envelope.ObjectClassName = "domain") =>
    LET ns == Matching({<<"n", "s", "e", "r", "v", "e", "r">>})
        st == Matching({<<"s", "t", "a", "t", "u", "s">>})
        rg == Matching({<<"r", "e", "g", "i", "s", "t", "r", "a", "r">>})
        ev == Matching({<<"c", "r", "e", "a", "t", "e", "d">>, <<"p", "a", "i", "d", "-", "t", "i", "l", "l">>, <<"e", "x", "p", "i", "r", "e", "s">>, <<"u", "p", "d", "a", "t", "e", "d">>})
    IN  /\ Envelope.Nameservers =
             [i \in 1..Len(ns) |-> [ObjectClassName |-> "nameserver", LdhName |-> ValueAt(ns[i])]]
        /\ Envelope.Status = [i \in 1..Len(st) |-> ValueAt(st[i])]
        /\ Envelope.Entities =
             [i \in 1..Len(rg) |->
                [ObjectClassName |-> "entity", Handle |-> ValueAt(rg[i]), Roles |-> <<"registrar">>]]
        /\ Envelope.Events =
             [i \in 1..Len(ev) |->
                [EventAction |-> DomainEventAction(ToLower(LineKey(TextLines[ev[i]]))),
                 EventDate |-> ValueAt(ev[i])]]

C12_Witness ==
  /\ pc = "converted" /\ Envelope.ObjectClassName = "domain"
  /\ whoisData = <<"p", "a", "i", "d", "-", "t", "i", "l", "l", ":", " ", "2", "0", "2", "6", "\n", "c", "r", "e", "a", "t", "e", "d", ":", " ", "2", "0", "0", "1", "-", "0", "2", "-", "1", "9", "T", "2", "1", ":", "0", "0", ":", "0", "0", "Z">>
  /\ Len(Envelope.Events) = 2
  /\ Envelope.Events[1] = [EventAction |-> "expiration", EventDate |-> <<"2", "0", "2", "6">>]
  /\ Envelope.Events[2] = [EventAction |-> "registration", EventDate |-> <<"2", "0", "0", "1", "-", "0", "2", "-", "1", "9", "T", "2", "1", ":", "0", "0", ":", "0", "0", "Z">>]

ParseLineOf(class, r, line) ==
  CASE class = "domain" -> parseDomainLine(r, line)
    [] class = "ip network" -> parseIPLine(r, line)
    [] class = "autnum" -> parseASNLine(r, line)

ParseLinesOf(class, r, lines) ==
  CASE class = "domain" -> parseDomainLines(r, lines)
    [] class = "ip network" -> parseIPLines(r, lines)
    [] class = "autnum" -> parseASNLines(r, lines)

\* the record before and after line i of the text, under the parser of class
Before(class, i) == ParseLinesOf(class, RDAPResponse(whoisData), SubSeq(TextLines, 1, i - 1))

After(class, i) == ParseLineOf(class, Before(class, i), TextLines[i])

FirstColon(t) == CHOOSE i \in 1..Len(t) : t[i] = ":" /\ \A j \in 1..(i - 1) : t[j] # ":"

\* a line counts when, trimmed, it is not empty, is no "%" comment and has a ":"
Counts(line) ==
  LET t == TrimSpace(line)
  IN  t # <<>> /\ t[1] # "%" /\ \E i \in 1..Len(t) : t[i] = ":"

LabelOf(line) ==
  LET t == TrimSpace(line) IN TrimSpace(SubSeq(t, 1, FirstColon(t) - 1))

ValueOf(line) ==
  LET t == TrimSpace(line) IN TrimSpace(SubSeq(t, FirstColon(t) + 1, Len(t)))

\* C14: under each of the three parsers, a line that is blank, a "%" comment or
\* without ":" leaves the record as it was; any other line is split at its first ":"
\* only and stored as trimmed label and trimmed value.
C14_SkipAndSplitAtFirstColon ==
  pc = "converted" =>
    /\ \A class \in ObjectClasses, i \in 1..Len(TextLines) :
         IF Counts(TextLines[i])
         THEN /\ LabelOf(TextLines[i]) \in DOMAIN After(class, i).WhoisParsed
              /\ After(class, i).WhoisParsed[LabelOf(TextLines[i])] = ValueOf(TextLines[i])
         ELSE After(class, i) = Before(class, i)
    /\ Envelope.ObjectClassName \in ObjectClasses =>
         DOMAIN Envelope.WhoisParsed =
           {LabelOf(TextLines[i]) : i \in {j \in 1..Len(TextLines) : Counts(TextLines[j])}}

C14_Witness ==
  /\ pc = "converted" /\ Envelope.ObjectClassName = "ip network"
  /\ whoisData = <<" ", "%", " ", "c", "o", "m", "m", "e", "n", "t", ":", " ", "x", "\n", "c", "r", "e", "a", "t", "e", "d", ":", " ", "2", "0", "0", "1", "-", "0", "2", "-", "1", "9", "T", "2", "1", ":", "0", "0", ":", "0", "0", "Z">>
  /\ Envelope.WhoisParsed = (<<"c", "r", "e", "a", "t", "e", "d">> :> <<"2", "0", "0", "1", "-", "0", "2", "-", "1", "9", "T", "2", "1", ":", "0", "0", ":", "0", "0", "Z">>)
  /\ Envelope.Events = <<[EventAction |-> "registration", EventDate |-> <<"2", "0", "0", "1", "-", "0", "2", "-", "1", "9", "T", "2", "1", ":", "0", "0", ":", "0", "0", "Z">>]>>

\* the labels each kind routes to a structured field
MappingTable(class) ==
  CASE class = "domain" ->
         {<<"d", "o", "m", "a", "i", "n", " ", "n", "a", "m", "e">>, <<"r", "e", "g", "i", "s", "t", "r", "a", "r">>, <<"c", "r", "e", "a", "t", "e", "d">>, <<"p", "a", "i", "d", "-", "t", "i", "l", "l">>, <<"e", "x", "p", "i", "r", "e", "s">>, <<"u", "p", "d", "a", "t", "e", "d">>,
          <<"n", "s", "e", "r", "v", "e", "r">>, <<"s", "t", "a", "t", "u", "s">>}
    [] class = "ip network" ->
         {<<"n", "e", "t", "n", "a", "m", "e">>, <<"n", "e", "t", "w", "o", "r", "k", " ", "n", "a", "m", "e">>, <<"d", "e", "s", "c", "r">>, <<"d", "e", "s", "c", "r", "i", "p", "t", "i", "o", "n">>, <<"c", "o", "u", "n", "t", "r", "y">>, <<"c", "r", "e", "a", "t", "e", "d">>,
          <<"l", "a", "s", "t", "-", "m", "o", "d", "i", "f", "i", "e", "d">>}
    [] class = "autnum" ->
         {<<"a", "s", "-", "n", "a", "m", "e">>, <<"a", "u", "t", "-", "n", "u", "m">>, <<"d", "e", "s", "c", "r">>, <<"d", "e", "s", "c", "r", "i", "p", "t", "i", "o", "n">>, <<"c", "r", "e", "a", "t", "e", "d">>, <<"l", "a", "s", "t", "-", "m", "o", "d", "i", "f", "i", "e", "d">>}

Structured(r) == <<r.Name, r.Entities, r.Events, r.Nameservers, r.Status, r.Remarks, r.Network>>

Unmapped(class, line) == Counts(line) /\ ToLower(LabelOf(line)) \notin MappingTable(class)

\* C15: a parsed line whose label, compared case-insensitively, is not in the
\* mapping table of the kind changes only the catch-all map: name, entities,
\* events, nameservers, status, remarks and network stay as they were.
C15_UnmappedLabelOnlyCatchAll ==
  pc = "converted" =>
    /\ \A class \in ObjectClasses, i \in 1..Len(TextLines) :
         Unmapped(class, TextLines[i]) =>
           /\ Structured(After(class, i)) = Structured(Before(class, i))
           /\ LabelOf(TextLines[i]) \in DOMAIN After(class, i).WhoisParsed
    /\ (/\ Envelope.ObjectClassName \in ObjectClasses
        /\ \A i \in 1..Len(TextLines) :
             Counts(TextLines[i]) => Unmapped(Envelope.ObjectClassName, TextLines[i])) =>
         Structured(Envelope) = Structured(RDAPResponse(whoisData))

C15_Witness ==
  /\ pc = "converted" /\ Envelope.ObjectClassName = "autnum"
  /\ whoisData = <<" ", " ", "n", "e", "t", "n", "a", "m", "e", " ", ":", " ", " ", "G", "O", "G", "L", " ", "\r", "\n", "n", "s", "e", "r", "v", "e", "r", ":", " ", "n", "s", "1", ".">>
  /\ Envelope.WhoisParsed = (<<"n", "e", "t", "n", "a", "m", "e">> :> <<"G", "O", "G", "L">>) @@ (<<"n", "s", "e", "r", "v", "e", "r">> :> <<"n", "s", "1", ".">>)
  /\ Envelope.Name = <<>> /\ Envelope.Nameservers = <<>>

\* the envelope fields that come from the query
QueryFields(r) ==
  <<r.ObjectClassName, r.LdhName, r.UnicodeName, r.StartAddress, r.EndAddress, r.IPVersion,
    r.Autnum, r.RdapConformance>>

\* C16: objectClassName, ldhName (the lower-cased query), unicodeName (the query),
\* startAddress, endAddress, ipVersion, autnum and rdapConformance are the same
\* for every raw text of a query, and rawWhois is the raw text unmodified.
C16_QueryFieldsIgnoreText ==
  pc = "converted" =>
    /\ QueryFields(Envelope) = QueryFields(convertWhoisToRDAP(query, <<>>))
    /\ Envelope.RawWhois = whoisData
    /\ Envelope.RdapConformance = <<"rdap_level_0">>
    /\ Envelope.ObjectClassName = "domain" =>
         Envelope.LdhName = ToLower(query) /\ Envelope.UnicodeName = query
    /\ Envelope.ObjectClassName = "ip network" =>
         Envelope.StartAddress = query /\ Envelope.EndAddress = query
    /\ Envelope.ObjectClassName = "autnum" => Envelope.Autnum = query

C16_Witness ==
  /\ pc = "converted" /\ query = <<"E", "g", "g", "e", "r", ".", "R", "U">>
  /\ whoisData = <<"D", "o", "m", "a", "i", "n", " ", "N", "a", "m", "e", ":", " ", "E", "G", "G", "E", "R", ".", "R", "U", "\n", " ", " ", "n", "e", "t", "n", "a", "m", "e", " ", ":", " ", " ", "G", "O", "G", "L", " ", "\r">>
  /\ Envelope.Name = <<"E", "G", "G", "E", "R", ".", "R", "U">>
  /\ Envelope.LdhName = <<"e", "g", "g", "e", "r", ".", "r", "u">> /\ Envelope.UnicodeName = <<"E", "g", "g", "e", "r", ".", "R", "U">>
  /\ Envelope.RawWhois = whoisData
====
